---- MODULE Spec2Model ----
(***************************************************************************)
(* A model of rp, a line-oriented stream replacer:                         *)
(*   - Pattern::replace_into for literal and regex patterns (replace.rs)   *)
(*   - Replacer::replace_stream (replace.rs)                               *)
(*   - unescape_bytes and its helpers (unescape.rs)                        *)
(*   - the stdout and in-place drivers (main.rs)                           *)
(* Bytes are integers 0..255, byte strings are sequences of bytes.  Rust   *)
(* indices are 0-based, so Slice(s, a, b) stands for &s[a..b].             *)
(***************************************************************************)
EXTENDS Integers, Sequences, FiniteSets, TLC

\* ------------------------------------------------------------------ bounds
MaxText == 3        \* longest text handed to replace_into
MaxPat == 2         \* longest literal pattern
MaxRep == 2         \* longest replacement template
MaxTemplate == 5    \* longest template handed to unescape_bytes
MaxDigits == 7      \* most digits tried between the braces of \u{...}
MaxInput == 4       \* longest input stream
MaxFiles == 2       \* most targets on the command line

\* ------------------------------------------------------------------- bytes
\* the bytes the inputs of the model are drawn from, besides those below
Ascii == [a |-> 97, b |-> 98, c |-> 99, q |-> 113, one |-> 49, eight |-> 56,
          D |-> 68, f |-> 102]
Dollar == 36
Zero == 48
NL == 10
BS == 92            \* backslash
LowerX == 120
LowerU == 117
LowerN == 110
LowerR == 114
LowerT == 116
LBrace == 123
RBrace == 125

Slice(s, a, b) == SubSeq(s, a + 1, b)

Max(a, b) == IF a >= b THEN a ELSE b

SeqsUpTo(S, n) == UNION {[1..k -> S] : k \in 0..n}

IsPrefix(p, s) == Len(p) <= Len(s) /\ SubSeq(s, 1, Len(p)) = p

\* ------------------------------------------------ literal pattern (memmem)
\* the needle occurs in the haystack at 0-based offset i
OccursAt(text, pat, i) ==
    /\ i >= 0
    /\ i + Len(pat) <= Len(text)
    /\ \A k \in 1..Len(pat) : text[i + k] = pat[k]

\* memmem's searcher: the first occurrence at or after offset from, -1 if none
MemmemFind(text, pat, from) ==
    IF \E i \in from..Len(text) : OccursAt(text, pat, i)
    THEN CHOOSE i \in from..Len(text) :
            /\ OccursAt(text, pat, i)
            /\ \A j \in from..(i - 1) : ~OccursAt(text, pat, j)
    ELSE -1

\* memmem::FindIter::next advances its position past the occurrence, and by
\* one byte for an empty needle
FindIterAdvance(start, pat) == start + Max(1, Len(pat))

\* start + self.len(): where the copy of unmatched text resumes
LiteralLastBad(start, pat) == start + 1
LiteralLast(start, pat) == start + Len(pat)

\* if !all { break; }
BreakAfterMatch(all) == ~all

RECURSIVE LiteralLoop(_, _, _, _, _, _, _, _)
LiteralLoop(text, pat, rep, all, pos, last, buf, count) ==
    LET start == MemmemFind(text, pat, pos) IN
    IF start = -1
    THEN [buf |-> buf \o Slice(text, last, Len(text)), count |-> count]
    ELSE LET buf2 == (buf \o Slice(text, last, start)) \o rep
             last2 == LiteralLast(start, pat)
         IN IF BreakAfterMatch(all)
            THEN [buf |-> buf2 \o Slice(text, last2, Len(text)),
                  count |-> count + 1]
            ELSE LiteralLoop(text, pat, rep, all,
                             FindIterAdvance(start, pat), last2, buf2, count + 1)

LiteralReplaceInto(pat, buf, text, rep, all) ==
    LiteralLoop(text, pat, rep, all, 0, 0, buf, 0)

\* --------------------------------------------------- regex pattern (model)
\* A fragment of the regex syntax: a literal string s, c* and c+ for a byte c.
RegexLit(s) == [kind |-> "lit", s |-> s]
RegexStar(c) == [kind |-> "star", s |-> <<c>>]
RegexPlus(c) == [kind |-> "plus", s |-> <<c>>]

\* length of the run of byte c in text starting at 0-based offset i
RECURSIVE RunLen(_, _, _)
RunLen(text, c, i) ==
    IF i < Len(text) /\ text[i + 1] = c THEN 1 + RunLen(text, c, i + 1) ELSE 0

\* end of the (greedy, leftmost-first) match that starts at offset i, else -1
MatchEndAt(re, text, i) ==
    CASE re.kind = "lit" -> IF OccursAt(text, re.s, i) THEN i + Len(re.s) ELSE -1
      [] re.kind = "star" -> i + RunLen(text, re.s[1], i)
      [] re.kind = "plus" ->
            IF RunLen(text, re.s[1], i) >= 1 THEN i + RunLen(text, re.s[1], i) ELSE -1

NoMatch == [start |-> -1, end |-> -1]

\* Regex::find_at: the leftmost match starting at or after offset from
FindAt(re, text, from) ==
    IF \E i \in from..Len(text) : MatchEndAt(re, text, i) # -1
    THEN LET i == CHOOSE i \in from..Len(text) :
                    /\ MatchEndAt(re, text, i) # -1
                    /\ \A j \in from..(i - 1) : MatchEndAt(re, text, j) = -1
         IN [start |-> i, end |-> MatchEndAt(re, text, i)]
    ELSE NoMatch

\* Regex::find_iter / captures_iter: successive non-overlapping matches; an
\* empty match that touches the end of the previous match is skipped
RECURSIVE FindIter(_, _, _, _)
FindIter(re, text, last_end, last_match) ==
    IF last_end > Len(text) THEN <<>>
    ELSE LET m == FindAt(re, text, last_end) IN
         IF m = NoMatch THEN <<>>
         ELSE IF m.start = m.end
              THEN IF m.end = last_match
                   THEN FindIter(re, text, m.end + 1, last_match)
                   ELSE <<m>> \o FindIter(re, text, m.end + 1, m.end)
              ELSE <<m>> \o FindIter(re, text, m.end, m.end)

\* bytes that may form a capture group name after '$'
IsNameByte(b) ==
    \/ b \in 48..57
    \/ b \in 65..90
    \/ b \in 97..122
    \/ b = 95

RECURSIVE NameLen(_, _)
NameLen(rep, i) ==
    IF i <= Len(rep) /\ IsNameByte(rep[i]) THEN 1 + NameLen(rep, i + 1) ELSE 0

\* the reference is a number (all digits) that denotes group 0
IsGroupZero(name) == \A k \in 1..Len(name) : name[k] = Zero

\* Replacer::no_expansion for a byte slice: the template has no '$'
NoExpansionBad(rep) == TRUE
NoExpansion(rep) == \A k \in 1..Len(rep) : rep[k] # Dollar

\* Replacer::replace_append (Captures::expand): the patterns of the fragment
\* have no group but group 0, so every other reference expands to nothing
RECURSIVE Expand(_, _, _)
Expand(rep, i, whole) ==
    IF i > Len(rep) THEN <<>>
    ELSE IF rep[i] # Dollar THEN <<rep[i]>> \o Expand(rep, i + 1, whole)
    ELSE IF i + 1 <= Len(rep) /\ rep[i + 1] = Dollar
         THEN <<Dollar>> \o Expand(rep, i + 2, whole)
    ELSE LET n == NameLen(rep, i + 1) IN
         IF n = 0 THEN <<Dollar>> \o Expand(rep, i + 1, whole)
         ELSE (IF IsGroupZero(SubSeq(rep, i + 1, i + n)) THEN whole ELSE <<>>)
              \o Expand(rep, i + 1 + n, whole)

\* last = m.end()
RegexLast(m) == m.end

\* the loop of the no-expansion path over the remaining matches ms
RECURSIVE RegexFastLoop(_, _, _, _, _, _, _)
RegexFastLoop(text, ms, rep, all, last, buf, count) ==
    IF ms = <<>>
    THEN [buf |-> buf \o Slice(text, last, Len(text)), count |-> count]
    ELSE LET m == Head(ms)
             buf2 == (buf \o Slice(text, last, m.start)) \o rep
         IN IF BreakAfterMatch(all)
            THEN [buf |-> buf2 \o Slice(text, RegexLast(m), Len(text)),
                  count |-> count + 1]
            ELSE RegexFastLoop(text, Tail(ms), rep, all, RegexLast(m), buf2, count + 1)

\* the loop of the capture-expansion path over the remaining matches ms
RECURSIVE RegexCapLoop(_, _, _, _, _, _, _)
RegexCapLoop(text, ms, rep, all, last_match, buf, count) ==
    IF ms = <<>>
    THEN [buf |-> buf \o Slice(text, last_match, Len(text)), count |-> count]
    ELSE LET m == Head(ms)
             buf2 == (buf \o Slice(text, last_match, m.start))
                        \o Expand(rep, 1, Slice(text, m.start, m.end))
         IN IF BreakAfterMatch(all)
            THEN [buf |-> buf2 \o Slice(text, RegexLast(m), Len(text)),
                  count |-> count + 1]
            ELSE RegexCapLoop(text, Tail(ms), rep, all, RegexLast(m), buf2, count + 1)

\* if it.peek().is_none() { buf.extend_from_slice(text); return 0; }
RegexNoMatchBad(buf, text) == [buf |-> buf, count |-> 0]
RegexNoMatch(buf, text) == [buf |-> buf \o text, count |-> 0]

RegexReplaceInto(re, buf, text, rep, all) ==
    LET ms == FindIter(re, text, 0, -1) IN
    IF NoExpansion(rep)
    THEN IF ms = <<>> THEN RegexNoMatch(buf, text)
         ELSE RegexFastLoop(text, ms, rep, all, 0, buf, 0)
    ELSE IF ms = <<>> THEN RegexNoMatch(buf, text)
         ELSE RegexCapLoop(text, ms, rep, all, 0, buf, 0)

\* Pattern::replace_into, dispatched on the variant of the pattern
ReplaceInto(pattern, buf, text, rep, all) ==
    IF pattern.kind = "literal"
    THEN LiteralReplaceInto(pattern.s, buf, text, rep, all)
    ELSE RegexReplaceInto(pattern, buf, text, rep, all)

\* ------------------------------------------------------------- unescape.rs
\* nibble: the value of an ASCII hex digit, -1 for Err(InvalidHexDigit)
Nibble(b) ==
    IF b \in 48..57 THEN b - 48
    ELSE IF b \in 97..102 THEN b - 97 + 10
    ELSE IF b \in 65..70 THEN b - 65 + 10
    ELSE -1

UOk(val, used) == [ok |-> TRUE, val |-> val, used |-> used, kind |-> "none"]
UFail(kind) == [ok |-> FALSE, val |-> 0, used |-> 0, kind |-> kind]

\* parse_hex: exactly 2 hex digits from the start of bytes
ParseHex(bytes) ==
    IF Len(bytes) < 1 THEN UFail("TruncatedHex")
    ELSE IF Nibble(bytes[1]) = -1 THEN UFail("InvalidHexDigit")
    ELSE IF Len(bytes) < 2 THEN UFail("TruncatedHex")
    ELSE IF Nibble(bytes[2]) = -1 THEN UFail("InvalidHexDigit")
    ELSE UOk((Nibble(bytes[1]) * 16 + Nibble(bytes[2])) % 256, 2)

\* bytes.iter().take(8).position(|b| *b == b'}'): 0-based, -1 for None
LookAhead == 8
BracePosition(bytes) ==
    LET n == IF Len(bytes) < LookAhead THEN Len(bytes) ELSE LookAhead IN
    IF \E i \in 1..n : bytes[i] = RBrace
    THEN (CHOOSE i \in 1..n :
            bytes[i] = RBrace /\ \A j \in 1..(i - 1) : bytes[j] # RBrace) - 1
    ELSE -1

\* val = (val << 4) | nibble(digit) over the digits; -1 at the first digit
\* that is not a hex digit.  The closing brace lies within the first 8 bytes,
\* so there are at most 6 digits and the u32 never overflows.
RECURSIVE AccumulateDigits(_, _)
AccumulateDigits(digits, val) ==
    IF digits = <<>> THEN val
    ELSE IF Nibble(Head(digits)) = -1 THEN -1
    ELSE AccumulateDigits(Tail(digits), val * 16 + Nibble(Head(digits)))

\* if bytes.len() < 3 { return Err(TruncatedUnicode) }
MinUnicodeLen == 3

\* parse_unicode: the digits between the braces and the bytes used
ParseUnicode(bytes) ==
    IF Len(bytes) < MinUnicodeLen THEN UFail("TruncatedUnicode")
    ELSE IF bytes[1] # LBrace THEN UFail("TruncatedUnicode")
    ELSE LET end == BracePosition(bytes) IN
         IF end = -1 THEN UFail("TruncatedUnicode")
         ELSE LET digits == Slice(bytes, 1, end)
                  val == AccumulateDigits(digits, 0)
              IN IF val = -1 THEN UFail("InvalidHexDigit")
                 ELSE UOk(val, Len(digits) + 2)

\* char::try_from(u32) succeeds on the Unicode scalar values
IsCharBad(i) == i <= 1114111
IsChar(i) == i <= 1114111 /\ ~(i \in 55296..57343)

\* char::encode_utf8
EncodeUtf8(c) ==
    IF c < 128 THEN <<c>>
    ELSE IF c < 2048 THEN <<192 + (c \div 64), 128 + (c % 64)>>
    ELSE IF c < 65536
         THEN <<224 + (c \div 4096), 128 + ((c \div 64) % 64), 128 + (c % 64)>>
    ELSE <<240 + (c \div 262144), 128 + ((c \div 4096) % 64),
           128 + ((c \div 64) % 64), 128 + (c % 64)>>

\* memchr(b'\\', &bytes[last..]) advanced by last: 0-based, -1 for None
NextBackslash(bytes, last) ==
    IF \E i \in (last + 1)..Len(bytes) : bytes[i] = BS
    THEN (CHOOSE i \in (last + 1)..Len(bytes) :
            bytes[i] = BS /\ \A j \in (last + 1)..(i - 1) : bytes[j] # BS) - 1
    ELSE -1

\* the one-byte escapes of the match in unescape_bytes_
SimpleEscapes == {Zero, BS, LowerN, LowerR, LowerT}
SimpleValue(esc) ==
    CASE esc = Zero -> 0
      [] esc = BS -> BS
      [] esc = LowerN -> 10
      [] esc = LowerR -> 13
      [] esc = LowerT -> 9

\* Error { pos, kind }; ErrorKind::at reports the offset of the backslash
ErrorAt(kind, pos) == [pos |-> pos, kind |-> kind]

\* =================================================================== state
VARIABLES
    rcall,      \* replace_into: the arguments of the call under way
    rret,       \* replace_into: buf and the returned count once it returned
    ubytes,     \* unescape_bytes_: the input template
    uout,       \* unescape_bytes_: out
    ulast,      \* unescape_bytes_: last
    upc,        \* unescape_bytes_: "idle", "scan", "ok" or "err"
    uerr,       \* unescape_bytes_: the Error returned (pos, kind)
    replacer,   \* Replacer: pattern, replacement, replace_all, print_only_matches
    input,      \* replace_stream: the whole content of the input stream
    rdpos,      \* replace_stream: number of input bytes consumed so far
    sbuf,       \* replace_stream: buf, the line unit just read
    output,     \* replace_stream: the bytes accepted by the output sink
    spc,        \* replace_stream: "idle", "read", "replace", "ok", "read_err", "write_err"
    files,      \* run: the list of targets
    in_place,   \* run: args.in_place
    fs,         \* the files by path: exists, content, mode
    tmp,        \* the NamedTempFile of the in-place edit: exists, content, mode
    meta,       \* replace_one_inplace: infile_meta.permissions()
    before,     \* the files as they were when the current target was begun
    fidx,       \* the position in files of the current target (from 1)
    failed,     \* do_replace_stdout: failed
    dpc,        \* the driver's position: "idle", "run", ..., "done"
    stdout,     \* the bytes written to standard output
    stderr,     \* the errors reported: target and kind
    exit        \* the exit status: "none", "ok" or "fail"

rvars == <<rcall, rret>>
uvars == <<ubytes, uout, ulast, upc, uerr>>
svars == <<replacer, input, rdpos, sbuf, output, spc>>
dvars == <<files, in_place, fs, tmp, meta, before, fidx, failed, dpc,
           stdout, stderr, exit>>
vars == <<rcall, rret, ubytes, uout, ulast, upc, uerr,
          replacer, input, rdpos, sbuf, output, spc,
          files, in_place, fs, tmp, meta, before, fidx, failed, dpc,
          stdout, stderr, exit>>

NoErr == [pos |-> -1, kind |-> "none"]
NoRet == [buf |-> <<>>, count |-> -1]
NoCall == [pattern |-> [kind |-> "literal", s |-> <<>>], buf |-> <<>>,
           text |-> <<>>, rep |-> <<>>, all |-> FALSE]
NoReplacer == [pattern |-> [kind |-> "literal", s |-> <<>>], replacement |-> <<>>,
               replace_all |-> FALSE, print_only_matches |-> FALSE]

FilePaths == {"f1", "f2", "nofile"}
NoFile == [exists |-> FALSE, content |-> <<>>, mode |-> "none"]
NoFiles == [p \in FilePaths |-> NoFile]

DIdle ==
    /\ files = <<>> /\ in_place = FALSE /\ fs = NoFiles /\ tmp = NoFile
    /\ meta = "none" /\ before = NoFiles /\ fidx = 1 /\ failed = FALSE
    /\ dpc = "idle" /\ stdout = <<>> /\ stderr = <<>> /\ exit = "none"
RIdle == rcall = NoCall /\ rret = NoRet
UIdle == ubytes = <<>> /\ uout = <<>> /\ ulast = 0 /\ upc = "idle" /\ uerr = NoErr
SIdle == /\ replacer = NoReplacer /\ input = <<>> /\ rdpos = 0
         /\ sbuf = <<>> /\ output = <<>> /\ spc = "idle"

\* ------------------------------------------------- replace_into, one call
TextBytes == {Ascii.a, Ascii.b}
RepBytes == {Ascii.c, Dollar, Zero}

LiteralPatterns == {[kind |-> "literal", s |-> s] : s \in SeqsUpTo(TextBytes, MaxPat)}
RegexPatterns ==
    {RegexLit(s) : s \in SeqsUpTo(TextBytes, MaxPat)}
        \cup {RegexStar(c) : c \in TextBytes} \cup {RegexPlus(c) : c \in TextBytes}

ReplaceCalls ==
    [pattern : LiteralPatterns \cup RegexPatterns,
     buf : {<<>>, <<Ascii.c>>},
     text : SeqsUpTo(TextBytes, MaxText),
     rep : SeqsUpTo(RepBytes, MaxRep),
     all : BOOLEAN]

InitReplace ==
    /\ rcall \in ReplaceCalls
    /\ rret = NoRet
    /\ UIdle /\ SIdle /\ DIdle

\* impl Pattern for &[u8] / Vec<u8>
LiteralCall ==
    /\ rret = NoRet
    /\ rcall.pattern.kind = "literal"
    /\ rret' = ReplaceInto(rcall.pattern, rcall.buf, rcall.text, rcall.rep, rcall.all)
    /\ UNCHANGED <<rcall, uvars, svars, dvars>>

\* impl Pattern for Regex
RegexCall ==
    /\ rret = NoRet
    /\ rcall.pattern.kind # "literal"
    /\ rret' = ReplaceInto(rcall.pattern, rcall.buf, rcall.text, rcall.rep, rcall.all)
    /\ UNCHANGED <<rcall, uvars, svars, dvars>>

NextReplace == LiteralCall \/ RegexCall

SpecReplace == InitReplace /\ [][NextReplace]_vars

\* ------------------------------------------------------ claims C1, C2, C3
Returned == rret # NoRet

\* the bytes the call appended to buf (buf is only ever appended to)
Appended == SubSeq(rret.buf, Len(rcall.buf) + 1, Len(rret.buf))

Occurrences(text, pat) == {i \in 0..Len(text) : OccursAt(text, pat, i)}

\* the occurrences a left-to-right scan replaces: no two of them overlap and
\* every other occurrence overlaps an earlier replaced one
Scanned(text, pat) ==
    CHOOSE S \in SUBSET Occurrences(text, pat) :
        /\ \A i \in S : \A j \in S : i < j => i + Len(pat) <= j
        /\ \A j \in Occurrences(text, pat) \ S :
              \E i \in S : i < j /\ j < i + Len(pat)

Leftmost(text, pat) ==
    {i \in Occurrences(text, pat) : \A j \in Occurrences(text, pat) : i <= j}

\* the text from offset from on, with rep in place of the n bytes at each
\* offset of S
RECURSIVE Spliced(_, _, _, _, _)
Spliced(text, S, n, rep, from) ==
    IF \E i \in S : i >= from
    THEN LET i == CHOOSE i \in S : i >= from /\ \A j \in S : j >= from => i <= j
         IN (Slice(text, from, i) \o rep) \o Spliced(text, S, n, rep, i + n)
    ELSE Slice(text, from, Len(text))

\* C1: with a non-empty literal pattern, replace_into replaces the leftmost
\* occurrence only (replace_all false) or every non-overlapping occurrence
\* scanned left to right (replace_all true), returns their number, and
\* appends the unmatched stretches in order with the template in place of
\* each replaced occurrence.
C1_LiteralReplace ==
    (Returned /\ rcall.pattern.kind = "literal" /\ Len(rcall.pattern.s) > 0) =>
        LET S == IF rcall.all THEN Scanned(rcall.text, rcall.pattern.s)
                 ELSE Leftmost(rcall.text, rcall.pattern.s)
        IN /\ rret.count = Cardinality(S)
           /\ IsPrefix(rcall.buf, rret.buf)
           /\ Appended = Spliced(rcall.text, S, Len(rcall.pattern.s), rcall.rep, 0)

C1_Witness ==
    /\ Returned /\ rcall.pattern.kind = "literal" /\ Len(rcall.pattern.s) > 0
    /\ ~rcall.all
    /\ Cardinality(Occurrences(rcall.text, rcall.pattern.s)) >= 2
    /\ rret.count = 1
    /\ rcall.rep # rcall.pattern.s

\* the language of a pattern of the regex fragment
InLang(re, s) ==
    CASE re.kind = "lit" -> s = re.s
      [] re.kind = "star" -> \A k \in 1..Len(s) : s[k] = re.s[1]
      [] re.kind = "plus" -> Len(s) >= 1 /\ \A k \in 1..Len(s) : s[k] = re.s[1]

\* some stretch of the text matches the pattern
HasOccurrence(pattern, text) ==
    IF pattern.kind = "literal"
    THEN Occurrences(text, pattern.s) # {}
    ELSE \E i \in 0..Len(text) : \E j \in i..Len(text) :
            InLang(pattern, Slice(text, i, j))

\* C2: a line with zero occurrences of the pattern is copied through
\* unchanged and the count is 0, for literal and regex patterns and for both
\* values of replace_all.
C2_NoOccurrenceCopy ==
    (Returned /\ ~HasOccurrence(rcall.pattern, rcall.text)) =>
        /\ rret.count = 0
        /\ rret.buf = rcall.buf \o rcall.text

C2_Witness ==
    /\ Returned /\ ~HasOccurrence(rcall.pattern, rcall.text)
    /\ rcall.pattern.kind = "plus"
    /\ Len(rcall.text) = 2 /\ rcall.all
    /\ ~NoExpansion(rcall.rep)
    /\ rcall.buf # <<>>

\* C3 as stated: an empty input line gives count 0 and appends nothing, for
\* any pattern, template and replace_all.
C3_EmptyLineAnyPattern ==
    (Returned /\ rcall.text = <<>>) =>
        /\ rret.count = 0
        /\ rret.buf = rcall.buf

\* the pattern matches the empty string
MatchesEmpty(pattern) ==
    IF pattern.kind = "literal" THEN pattern.s = <<>> ELSE InLang(pattern, <<>>)

\* C3 amended: an empty input line gives count 0 and appends nothing for a
\* pattern that does not match the empty string; an empty literal pattern or a
\* regex that matches the empty string matches once, so the count is 1 and
\* the replacement (expanded for the empty match) is appended.
C3_EmptyLine ==
    (Returned /\ rcall.text = <<>>) =>
        IF MatchesEmpty(rcall.pattern)
        THEN /\ rret.count = 1
             /\ rret.buf = rcall.buf \o
                    (IF rcall.pattern.kind = "literal" THEN rcall.rep
                     ELSE Expand(rcall.rep, 1, <<>>))
        ELSE /\ rret.count = 0
             /\ rret.buf = rcall.buf

C3_Witness ==
    /\ Returned /\ rcall.text = <<>>
    /\ rcall.pattern.kind = "star"
    /\ rcall.rep = <<Dollar, Zero>>
    /\ rret.count = 1

\* ---------------------------------------------------------- unescape_bytes
EscBytes == {BS, LowerX, LowerU, LBrace, RBrace, Zero, Ascii.q}
HexSample == {Zero, Ascii.one, Ascii.eight, Ascii.D, Ascii.f}

UnicodeEscape(digits) == (<<BS, LowerU, LBrace>> \o digits) \o <<RBrace>>

UnescapeInputs ==
    SeqsUpTo(EscBytes, MaxTemplate)
        \cup {UnicodeEscape(d) : d \in SeqsUpTo(HexSample, MaxDigits)}

InitUnescape ==
    /\ ubytes \in UnescapeInputs
    /\ uout = <<>> /\ ulast = 0 /\ upc = "scan" /\ uerr = NoErr
    /\ RIdle /\ SIdle /\ DIdle

\* the position of the backslash of this iteration of the while loop
UPos == NextBackslash(ubytes, ulast)
\* bytes.get(pos + 1)
UHasEsc == UPos + 1 < Len(ubytes)
UEsc == ubytes[UPos + 2]
\* &bytes[(pos + 2)..]
UAfterEsc == Slice(ubytes, UPos + 2, Len(ubytes))
\* out after out.extend_from_slice(&bytes[last..pos])
UOutCopied == uout \o Slice(ubytes, ulast, UPos)

UFailWith(err) ==
    /\ upc' = "err"
    /\ uerr' = err
    /\ uout' = <<>>
    /\ UNCHANGED <<ubytes, ulast, rvars, svars, dvars>>

UContinue(out, last) ==
    /\ uout' = out
    /\ ulast' = last
    /\ UNCHANGED <<ubytes, upc, uerr, rvars, svars, dvars>>

\* pos += 2 for the two hex digits, then last = pos + 2
HexLastBad(pos) == pos + 2
HexLast(pos) == (pos + 2) + 2

\* the while condition fails: copy the rest and return Ok(out)
UnescapeDone ==
    /\ upc = "scan" /\ UPos = -1
    /\ uout' = uout \o Slice(ubytes, ulast, Len(ubytes))
    /\ upc' = "ok"
    /\ UNCHANGED <<ubytes, ulast, uerr, rvars, svars, dvars>>

\* bytes.get(pos + 1) is None
UnescapeMissing ==
    /\ upc = "scan" /\ UPos # -1 /\ ~UHasEsc
    /\ UFailWith(ErrorAt("MissingEscape", UPos))

\* b'0', b'\\', b'n', b'r', b't'
UnescapeSimple ==
    /\ upc = "scan" /\ UPos # -1 /\ UHasEsc /\ UEsc \in SimpleEscapes
    /\ UContinue(Append(UOutCopied, SimpleValue(UEsc)), UPos + 2)

\* b'x'
UnescapeHex ==
    /\ upc = "scan" /\ UPos # -1 /\ UHasEsc /\ UEsc = LowerX
    /\ LET r == ParseHex(UAfterEsc) IN
       IF r.ok THEN UContinue(Append(UOutCopied, r.val), HexLast(UPos))
       ELSE UFailWith(ErrorAt(r.kind, UPos))

\* b'u'
UnescapeUnicode ==
    /\ upc = "scan" /\ UPos # -1 /\ UHasEsc /\ UEsc = LowerU
    /\ LET r == ParseUnicode(UAfterEsc) IN
       IF ~r.ok THEN UFailWith(ErrorAt(r.kind, UPos))
       ELSE IF ~IsChar(r.val) THEN UFailWith(ErrorAt("InvalidUnicodeCodepoint", UPos))
       ELSE UContinue(UOutCopied \o EncodeUtf8(r.val), (UPos + r.used) + 2)

\* any other escape byte
UnescapeInvalid ==
    /\ upc = "scan" /\ UPos # -1 /\ UHasEsc
    /\ UEsc \notin SimpleEscapes \cup {LowerX, LowerU}
    /\ UFailWith(ErrorAt("InvalidEscape", UPos))

NextUnescape ==
    \/ UnescapeDone \/ UnescapeMissing \/ UnescapeSimple
    \/ UnescapeHex \/ UnescapeUnicode \/ UnescapeInvalid

SpecUnescape == InitUnescape /\ [][NextUnescape]_vars

\* ------------------------------------------------------ claims C5, C8, C9
UFinal == upc \in {"ok", "err"}

HexDigitsUpper == <<48, 49, 50, 51, 52, 53, 54, 55, 56, 57, 65, 66, 67, 68, 69, 70>>
HexDigitsLower == <<48, 49, 50, 51, 52, 53, 54, 55, 56, 57, 97, 98, 99, 100, 101, 102>>
IsHexDigit(b) == \E v \in 1..16 : HexDigitsUpper[v] = b \/ HexDigitsLower[v] = b
DigitValue(b) == (CHOOSE v \in 1..16 : HexDigitsUpper[v] = b \/ HexDigitsLower[v] = b) - 1

\* the number a string of hex digits denotes, most significant digit first
RECURSIVE HexValue(_)
HexValue(d) ==
    IF d = <<>> THEN 0
    ELSE HexValue(SubSeq(d, 1, Len(d) - 1)) * 16 + DigitValue(d[Len(d)])

IsScalar(v) == v >= 0 /\ v <= 1114111 /\ ~(v >= 55296 /\ v <= 57343)

IsCont(b) == b >= 128 /\ b <= 191

\* bs is the UTF-8 encoding of v: the shortest form, lead byte and
\* continuation bytes carrying the bits of v
IsUtf8Of(bs, v) ==
    \/ Len(bs) = 1 /\ bs[1] <= 127 /\ v = bs[1]
    \/ /\ Len(bs) = 2 /\ bs[1] >= 192 /\ bs[1] <= 223 /\ IsCont(bs[2])
       /\ v = (bs[1] - 192) * 64 + (bs[2] - 128) /\ v >= 128
    \/ /\ Len(bs) = 3 /\ bs[1] >= 224 /\ bs[1] <= 239 /\ IsCont(bs[2]) /\ IsCont(bs[3])
       /\ v = ((bs[1] - 224) * 64 + (bs[2] - 128)) * 64 + (bs[3] - 128) /\ v >= 2048
    \/ /\ Len(bs) = 4 /\ bs[1] >= 240 /\ bs[1] <= 247
       /\ IsCont(bs[2]) /\ IsCont(bs[3]) /\ IsCont(bs[4])
       /\ v = (((bs[1] - 240) * 64 + (bs[2] - 128)) * 64 + (bs[3] - 128)) * 64
                + (bs[4] - 128)
       /\ v >= 65536

\* the input is exactly \u{D} for a non-empty string D of hex digits
IsUnicodeInput(bytes) ==
    /\ Len(bytes) >= 5
    /\ SubSeq(bytes, 1, 3) = <<BS, LowerU, LBrace>>
    /\ bytes[Len(bytes)] = RBrace
    /\ \A k \in 4..(Len(bytes) - 1) : IsHexDigit(bytes[k])
DigitsOf(bytes) == SubSeq(bytes, 4, Len(bytes) - 1)

\* C5: \u{D} with 1 to 6 hex digits decodes to the UTF-8 encoding of the
\* value of D when that value is a Unicode scalar and is an error when it is
\* a surrogate or exceeds 0x10FFFF; 7 or more hex digits are an error.
C5_UnicodeEscape ==
    (UFinal /\ IsUnicodeInput(ubytes)) =>
        LET d == DigitsOf(ubytes) IN
        IF Len(d) <= 6 /\ IsScalar(HexValue(d))
        THEN upc = "ok" /\ IsUtf8Of(uout, HexValue(d))
        ELSE upc = "err"

C5_Witness ==
    /\ UFinal /\ IsUnicodeInput(ubytes)
    /\ Len(DigitsOf(ubytes)) = 6
    /\ upc = "ok" /\ Len(uout) = 4

\* the length of the well-formed escape sequence whose backslash is at
\* 0-based offset p, 0 when the sequence is not one of the escape grammar
ValidEscapeLen(bytes, p) ==
    LET at(k) == bytes[p + 1 + k] IN   \* the byte k places after the backslash
    IF p + 1 >= Len(bytes) THEN 0
    ELSE IF at(1) \in {BS, Zero, LowerN, LowerR, LowerT} THEN 2
    ELSE IF at(1) = LowerX
         THEN IF p + 3 < Len(bytes) /\ IsHexDigit(at(2)) /\ IsHexDigit(at(3))
              THEN 4 ELSE 0
    ELSE IF at(1) = LowerU
         THEN IF \E k \in 1..6 :
                    /\ p + 3 + k < Len(bytes)
                    /\ at(2) = LBrace /\ at(3 + k) = RBrace
                    /\ \A j \in 1..k : IsHexDigit(at(2 + j))
                    /\ IsScalar(HexValue(SubSeq(bytes, p + 4, p + 3 + k)))
              THEN 4 + (CHOOSE k \in 1..6 :
                            /\ p + 3 + k < Len(bytes)
                            /\ at(3 + k) = RBrace
                            /\ \A j \in 1..k : IsHexDigit(at(2 + j)))
              ELSE 0
    ELSE 0

\* the offset of the backslash of the leftmost escape sequence that is not
\* well-formed, reading the template left to right; -1 when there is none
RECURSIVE LeftmostOffending(_, _)
LeftmostOffending(bytes, from) ==
    IF \A i \in (from + 1)..Len(bytes) : bytes[i] # BS THEN -1
    ELSE LET q == (CHOOSE i \in (from + 1)..Len(bytes) :
                     bytes[i] = BS /\ \A j \in (from + 1)..(i - 1) : bytes[j] # BS) - 1
         IN IF ValidEscapeLen(bytes, q) = 0 THEN q
            ELSE LeftmostOffending(bytes, q + ValidEscapeLen(bytes, q))

\* the number of backslashes the template ends with
RECURSIVE TrailingBackslashes(_)
TrailingBackslashes(bytes) ==
    IF bytes # <<>> /\ bytes[Len(bytes)] = BS
    THEN 1 + TrailingBackslashes(SubSeq(bytes, 1, Len(bytes) - 1))
    ELSE 0

\* C8: an error carries the offset of the backslash that begins the leftmost
\* offending escape sequence, and a template that ends in a lone backslash
\* (one not escaped by a backslash before it) is always an error.
C8_ErrorPosition ==
    /\ upc = "err" => uerr.pos = LeftmostOffending(ubytes, 0)
    /\ (UFinal /\ TrailingBackslashes(ubytes) % 2 = 1) => upc = "err"

\* the template begins with \u{}
HasEmptyUnicode(bytes) ==
    Len(bytes) >= 4 /\ SubSeq(bytes, 1, 4) = <<BS, LowerU, LBrace, RBrace>>

\* C9: a \u{} escape with no digit between its braces is an error, whatever
\* follows the closing brace.
C9_EmptyUnicodeIsError ==
    (UFinal /\ HasEmptyUnicode(ubytes)) => upc = "err"

\* ---------------------------------------------------------- replace_stream
\* read_until(b'\n', &mut buf) at offset pos: the bytes up to and including
\* the next newline, or up to the end of the input
ReadUntil(bytes, pos) ==
    IF \E i \in (pos + 1)..Len(bytes) : bytes[i] = NL
    THEN Slice(bytes, pos,
               CHOOSE i \in (pos + 1)..Len(bytes) :
                  bytes[i] = NL /\ \A j \in (pos + 1)..(i - 1) : bytes[j] # NL)
    ELSE Slice(bytes, pos, Len(bytes))

\* if !self.print_only_matches || rep_count != 0
ShouldWriteBad(r, rep_count) == ~r.print_only_matches
ShouldWrite(r, rep_count) == ~r.print_only_matches \/ rep_count # 0

\* .map_err(StreamIOError::Read)? and .map_err(StreamIOError::Write)?
ReadErrorBad == "write_err"
ReadError == "read_err"
WriteError == "write_err"

\* repbuf.clear(); rep_count = self.pattern.replace_into(&mut repbuf, &buf, ...)
Replaced(r, line) == ReplaceInto(r.pattern, <<>>, line, r.replacement, r.replace_all)

StreamBytes == {Ascii.a, Ascii.b, NL}
StreamReplacers ==
    [pattern : {[kind |-> "literal", s |-> <<Ascii.a>>],
                [kind |-> "literal", s |-> <<Ascii.a, Ascii.b>>],
                RegexPlus(Ascii.a), RegexStar(Ascii.b)},
     replacement : {<<>>, <<Ascii.c>>, <<Dollar, Zero, Dollar, Zero>>},
     replace_all : BOOLEAN,
     print_only_matches : BOOLEAN]

InitStream ==
    /\ replacer \in StreamReplacers
    /\ input \in SeqsUpTo(StreamBytes, MaxInput)
    /\ rdpos = 0 /\ sbuf = <<>> /\ output = <<>> /\ spc = "read"
    /\ RIdle /\ UIdle /\ DIdle

\* buf.clear(); read_until succeeds with at least one byte
StreamRead ==
    /\ spc = "read"
    /\ ReadUntil(input, rdpos) # <<>>
    /\ sbuf' = ReadUntil(input, rdpos)
    /\ rdpos' = rdpos + Len(ReadUntil(input, rdpos))
    /\ spc' = "replace"
    /\ UNCHANGED <<replacer, input, output, rvars, uvars, dvars>>

\* read_until yields no byte: if buf.is_empty() { break; } ... Ok(())
StreamEnd ==
    /\ spc = "read"
    /\ ReadUntil(input, rdpos) = <<>>
    /\ sbuf' = <<>>
    /\ spc' = "ok"
    /\ UNCHANGED <<replacer, input, rdpos, output, rvars, uvars, dvars>>

\* read_until fails after it took k bytes of the line (a line that ends in a
\* newline is returned once the newline is taken, so k stops short of it)
StreamReadFail ==
    /\ spc = "read"
    /\ LET unit == ReadUntil(input, rdpos)
           most == IF unit # <<>> /\ unit[Len(unit)] = NL
                   THEN Len(unit) - 1 ELSE Len(unit)
       IN \E k \in 0..most :
            /\ sbuf' = SubSeq(unit, 1, k)
            /\ rdpos' = rdpos + k
    /\ spc' = ReadError
    /\ UNCHANGED <<replacer, input, output, rvars, uvars, dvars>>

\* the replacement is made and write_all(&repbuf) succeeds
StreamWrite ==
    /\ spc = "replace"
    /\ ShouldWrite(replacer, Replaced(replacer, sbuf).count)
    /\ output' = output \o Replaced(replacer, sbuf).buf
    /\ spc' = "read"
    /\ UNCHANGED <<replacer, input, rdpos, sbuf, rvars, uvars, dvars>>

\* the replacement is made and the line is not written
StreamSkip ==
    /\ spc = "replace"
    /\ ~ShouldWrite(replacer, Replaced(replacer, sbuf).count)
    /\ spc' = "read"
    /\ UNCHANGED <<replacer, input, rdpos, sbuf, output, rvars, uvars, dvars>>

\* write_all fails after the sink took k bytes, fewer than all of repbuf
StreamWriteFail ==
    /\ spc = "replace"
    /\ ShouldWrite(replacer, Replaced(replacer, sbuf).count)
    /\ \E k \in 0..(Len(Replaced(replacer, sbuf).buf) - 1) :
            output' = output \o SubSeq(Replaced(replacer, sbuf).buf, 1, k)
    /\ spc' = WriteError
    /\ UNCHANGED <<replacer, input, rdpos, sbuf, rvars, uvars, dvars>>

NextStream ==
    \/ StreamRead \/ StreamEnd \/ StreamReadFail
    \/ StreamWrite \/ StreamSkip \/ StreamWriteFail

SpecStream == InitStream /\ [][NextStream]_vars

\* ---------------------------------------------------------- claims C4, C10
\* the line units of a byte string: each ends at a newline, inclusive, or at
\* the end of the string
RECURSIVE LineUnits(_)
LineUnits(bytes) ==
    IF bytes = <<>> THEN <<>>
    ELSE IF \E i \in 1..Len(bytes) : bytes[i] = NL
    THEN LET i == CHOOSE i \in 1..Len(bytes) :
                    bytes[i] = NL /\ \A j \in 1..(i - 1) : bytes[j] # NL
         IN <<SubSeq(bytes, 1, i)>> \o LineUnits(SubSeq(bytes, i + 1, Len(bytes)))
    ELSE <<bytes>>

\* what the units contribute to the output, in order: the transformed line
\* of each unit with only_matching false or a nonzero match count
RECURSIVE Emitted(_, _)
Emitted(r, units) ==
    IF units = <<>> THEN <<>>
    ELSE LET t == ReplaceInto(r.pattern, <<>>, Head(units), r.replacement, r.replace_all)
         IN (IF ~r.print_only_matches \/ t.count # 0 THEN t.buf ELSE <<>>)
                \o Emitted(r, Tail(units))

\* the input before the line unit held in buf
BeforeLine == SubSeq(input, 1, rdpos - Len(sbuf))

\* C4: replace_stream splits the input into line units and writes, in the
\* order read, exactly the transformed line of every unit for which
\* only_matching is false or the match count is nonzero; a unit with zero
\* matches under only_matching contributes nothing, and nothing else is written.
C4_StreamOutput ==
    /\ spc = "read" => output = Emitted(replacer, LineUnits(SubSeq(input, 1, rdpos)))
    /\ spc = "replace" =>
          /\ output = Emitted(replacer, LineUnits(BeforeLine))
          /\ LineUnits(SubSeq(input, 1, rdpos)) = Append(LineUnits(BeforeLine), sbuf)
          /\ sbuf[Len(sbuf)] = NL \/ rdpos = Len(input)
    /\ spc = "ok" =>
          /\ rdpos = Len(input)
          /\ output = Emitted(replacer, LineUnits(input))

C4_Witness ==
    /\ spc = "ok"
    /\ replacer.print_only_matches
    /\ Len(LineUnits(input)) = 3
    /\ output # <<>>
    /\ Len(output) < Len(Emitted([replacer EXCEPT !.print_only_matches = FALSE],
                                 LineUnits(input)))

\* once the stream failed, no step reads or writes
StaysAborted ==
    (spc \in {"read_err", "write_err"}) => UNCHANGED <<rdpos, sbuf, output, spc>>

\* C10: a failed read ends the stream with StreamIOError::Read and a failed
\* write with StreamIOError::Write; the output then holds the complete
\* transformed lines of the units before the failure, in order (followed, on a
\* failed write, by the part of the failing line the sink took), and after
\* the failure nothing more is read or written.
C10_StreamAbort ==
    /\ [](spc = "read_err" => output = Emitted(replacer, LineUnits(BeforeLine)))
    /\ [](spc = "write_err" =>
            /\ sbuf = ReadUntil(input, rdpos - Len(sbuf))
            /\ sbuf # <<>>
            /\ \E k \in 0..(Len(Emitted(replacer, <<sbuf>>)) - 1) :
                  output = Emitted(replacer, LineUnits(BeforeLine))
                              \o SubSeq(Emitted(replacer, <<sbuf>>), 1, k))
    /\ [][StaysAborted]_vars

C10_Witness ==
    /\ spc = "write_err"
    /\ Len(LineUnits(BeforeLine)) = 2
    /\ Len(output) > Len(Emitted(replacer, LineUnits(BeforeLine)))
    /\ rdpos < Len(input)

\* ----------------------------------------------------------------- main.rs
Stdin == "-"
StdinContent == <<Ascii.a, NL>>
TempMode == "0600"      \* the mode NamedTempFile creates its file with

InitialFiles ==
    [p \in FilePaths |->
        CASE p = "f1" -> [exists |-> TRUE, content |-> <<Ascii.a, NL, Ascii.b>>,
                          mode |-> "0644"]
          [] p = "f2" -> [exists |-> TRUE, content |-> <<Ascii.b, Ascii.a, NL>>,
                          mode |-> "0755"]
          [] OTHER -> NoFile]

RunReplacers ==
    [pattern : {[kind |-> "literal", s |-> <<Ascii.a>>], RegexPlus(Ascii.b)},
     replacement : {<<Ascii.c>>},
     replace_all : {FALSE},
     print_only_matches : BOOLEAN]

\* the state when run() is entered; clap requires files with --in-place
InitRun ==
    /\ files \in SeqsUpTo(FilePaths \cup {Stdin}, MaxFiles)
    /\ in_place \in BOOLEAN
    /\ in_place => files # <<>>
    /\ replacer \in RunReplacers
    /\ fs = InitialFiles /\ tmp = NoFile /\ meta = "none" /\ before = InitialFiles
    /\ fidx = 1 /\ failed = FALSE /\ dpc = "run"
    /\ stdout = <<>> /\ stderr = <<>> /\ exit = "none"
    /\ input = <<>> /\ rdpos = 0 /\ sbuf = <<>> /\ output = <<>> /\ spc = "idle"
    /\ RIdle /\ UIdle

Path == files[fidx]

\* stdin_arg_count
StdinArgCount(fl) == Cardinality({i \in 1..Len(fl) : fl[i] = Stdin})

Report(target, kind) == Append(stderr, [target |-> target, kind |-> kind])

\* main: run() returned Err, the error is printed and the process exits 1
ExitFailure(target, kind) ==
    /\ stderr' = Report(target, kind)
    /\ exit' = "fail"
    /\ dpc' = "done"

\* a call of replace_stream on a fresh input
StartStream(content) ==
    /\ input' = content
    /\ rdpos' = 0 /\ sbuf' = <<>> /\ output' = <<>> /\ spc' = "read"
    /\ UNCHANGED replacer

\* run: an empty file list stands for stdin; the two checks on '-'
RunStart ==
    /\ dpc = "run"
    /\ LET fl == IF files = <<>> THEN <<Stdin>> ELSE files IN
       /\ files' = fl
       /\ IF StdinArgCount(fl) > 1 \/ (in_place /\ StdinArgCount(fl) > 0)
          THEN ExitFailure("", "config")
          ELSE /\ dpc' = IF in_place THEN "inplace_loop" ELSE "stdout_loop"
               /\ UNCHANGED <<stderr, exit>>
    /\ UNCHANGED <<in_place, fs, tmp, meta, before, fidx, failed, stdout,
                   rvars, uvars, svars>>

\* do_replace_stdout: the target is '-', replace_stream reads stdin
StdoutStdin ==
    /\ dpc = "stdout_loop" /\ fidx <= Len(files) /\ Path = Stdin
    /\ StartStream(StdinContent)
    /\ before' = fs
    /\ dpc' = "stdout_stream"
    /\ UNCHANGED <<files, in_place, fs, tmp, meta, fidx, failed, stdout, stderr,
                   exit, rvars, uvars>>

\* do_replace_stdout: File::open succeeds
StdoutOpen ==
    /\ dpc = "stdout_loop" /\ fidx <= Len(files) /\ Path # Stdin
    /\ fs[Path].exists
    /\ StartStream(fs[Path].content)
    /\ before' = fs
    /\ dpc' = "stdout_stream"
    /\ UNCHANGED <<files, in_place, fs, tmp, meta, fidx, failed, stdout, stderr,
                   exit, rvars, uvars>>

\* do_replace_stdout: File::open(path).with_context(..)? returns the error
StdoutOpenFail ==
    /\ dpc = "stdout_loop" /\ fidx <= Len(files) /\ Path # Stdin
    /\ ~fs[Path].exists
    /\ ExitFailure(Path, "open")
    /\ UNCHANGED <<files, in_place, fs, tmp, meta, before, fidx, failed, stdout,
                   rvars, uvars, svars>>

\* do_replace_stdout: replace_stream returned Ok
StdoutStreamOk ==
    /\ dpc = "stdout_stream" /\ spc = "ok"
    /\ stdout' = stdout \o output
    /\ fidx' = fidx + 1
    /\ dpc' = "stdout_loop"
    /\ spc' = "idle"
    /\ UNCHANGED <<files, in_place, fs, tmp, meta, before, failed, stderr, exit,
                   replacer, input, rdpos, sbuf, output, rvars, uvars>>

\* do_replace_stdout: if let Err(err) = ret { eprintln!(..); failed = true; }
StdoutStreamErr ==
    /\ dpc = "stdout_stream" /\ spc \in {"read_err", "write_err"}
    /\ stdout' = stdout \o output
    /\ stderr' = Report(Path, spc)
    /\ failed' = TRUE
    /\ fidx' = fidx + 1
    /\ dpc' = "stdout_loop"
    /\ spc' = "idle"
    /\ UNCHANGED <<files, in_place, fs, tmp, meta, before, exit,
                   replacer, input, rdpos, sbuf, output, rvars, uvars>>

\* do_replace_stdout: the loop is over; Err if failed, else Ok
StdoutFinish ==
    /\ dpc = "stdout_loop" /\ fidx > Len(files)
    /\ IF failed THEN ExitFailure("", "summary")
       ELSE exit' = "ok" /\ dpc' = "done" /\ UNCHANGED stderr
    /\ UNCHANGED <<files, in_place, fs, tmp, meta, before, fidx, failed, stdout,
                   rvars, uvars, svars>>

\* replace_one_inplace returns Err: its locals are dropped, which removes the
\* temporary file if there is one, and do_replace_inplace returns the error
InplaceFail(kind) ==
    /\ ExitFailure(Path, kind)
    /\ tmp' = NoFile

\* replace_one_inplace returns an Err that owns the temporary file (.context
\* keeps the source error inside the anyhow::Error); main still holds that
\* error when it calls std::process::exit(1), which runs no destructor, so
\* the temporary file stays in the directory with the content it has
InplaceFailHolding(kind, content) ==
    /\ ExitFailure(Path, kind)
    /\ tmp' = [tmp EXCEPT !.content = content]

\* replace_one_inplace: File::open succeeds; the file names of the model have
\* an empty parent, so dir is "."
InplaceOpen ==
    /\ dpc = "inplace_loop" /\ fidx <= Len(files)
    /\ fs[Path].exists
    /\ before' = fs
    /\ dpc' = "ip_metadata"
    /\ UNCHANGED <<files, in_place, fs, tmp, meta, fidx, failed, stdout, stderr,
                   exit, rvars, uvars, svars>>

InplaceOpenFail ==
    /\ dpc = "inplace_loop" /\ fidx <= Len(files)
    /\ ~fs[Path].exists
    /\ before' = fs
    /\ InplaceFail("open")
    /\ UNCHANGED <<files, in_place, fs, meta, fidx, failed, stdout,
                   rvars, uvars, svars>>

\* infile.metadata()
InplaceMetadata ==
    /\ dpc = "ip_metadata"
    /\ meta' = fs[Path].mode
    /\ dpc' = "ip_tempfile"
    /\ UNCHANGED <<files, in_place, fs, tmp, before, fidx, failed, stdout, stderr,
                   exit, rvars, uvars, svars>>

InplaceMetadataFail ==
    /\ dpc = "ip_metadata"
    /\ InplaceFail("metadata")
    /\ UNCHANGED <<files, in_place, fs, meta, before, fidx, failed, stdout,
                   rvars, uvars, svars>>

\* the output is opened at the target path itself, which truncates the file
InplaceTempfileBad ==
    /\ dpc = "ip_tempfile"
    /\ tmp' = [exists |-> TRUE, content |-> <<>>, mode |-> TempMode]
    /\ fs' = [fs EXCEPT ![Path].content = <<>>]
    /\ StartStream(fs[Path].content)
    /\ dpc' = "ip_stream"
    /\ UNCHANGED <<files, in_place, meta, before, fidx, failed, stdout, stderr,
                   exit, rvars, uvars>>

\* NamedTempFile::new_in(dir), then replace_stream(&mut infile, &mut outfile)
InplaceTempfile ==
    /\ dpc = "ip_tempfile"
    /\ tmp' = [exists |-> TRUE, content |-> <<>>, mode |-> TempMode]
    /\ StartStream(fs[Path].content)
    /\ dpc' = "ip_stream"
    /\ UNCHANGED <<files, in_place, fs, meta, before, fidx, failed, stdout, stderr,
                   exit, rvars, uvars>>

InplaceTempfileFail ==
    /\ dpc = "ip_tempfile"
    /\ InplaceFail("tempfile")
    /\ UNCHANGED <<files, in_place, fs, meta, before, fidx, failed, stdout,
                   rvars, uvars, svars>>

\* replace_stream returned Ok; drop(infile)
InplaceStreamOk ==
    /\ dpc = "ip_stream" /\ spc = "ok"
    /\ dpc' = "ip_flush"
    /\ UNCHANGED <<files, in_place, fs, tmp, meta, before, fidx, failed, stdout,
                   stderr, exit, rvars, uvars, svars>>

\* replace_stream(..)? returns the StreamIOError
InplaceStreamErr ==
    /\ dpc = "ip_stream" /\ spc \in {"read_err", "write_err"}
    /\ InplaceFail(spc)
    /\ UNCHANGED <<files, in_place, fs, meta, before, fidx, failed, stdout,
                   rvars, uvars, svars>>

\* outfile.into_inner(): the buffered output reaches the temporary file
InplaceFlush ==
    /\ dpc = "ip_flush"
    /\ tmp' = [tmp EXCEPT !.content = output]
    /\ dpc' = "ip_persist"
    /\ UNCHANGED <<files, in_place, fs, meta, before, fidx, failed, stdout, stderr,
                   exit, rvars, uvars, svars>>

\* into_inner fails: the IntoInnerError owns the BufWriter and with it the
\* temporary file, which by then took k bytes of the output
InplaceFlushFail ==
    /\ dpc = "ip_flush"
    /\ \E k \in 0..Len(output) : InplaceFailHolding("flush", SubSeq(output, 1, k))
    /\ UNCHANGED <<files, in_place, fs, meta, before, fidx, failed, stdout,
                   rvars, uvars, svars>>

\* outfile.persist(path): the temporary file is renamed over the target
InplacePersist ==
    /\ dpc = "ip_persist"
    /\ fs' = [fs EXCEPT ![Path] = tmp]
    /\ tmp' = NoFile
    /\ dpc' = "ip_setperm"
    /\ UNCHANGED <<files, in_place, meta, before, fidx, failed, stdout, stderr,
                   exit, rvars, uvars, svars>>

\* persist fails: the PersistError owns the temporary file
InplacePersistFail ==
    /\ dpc = "ip_persist"
    /\ InplaceFailHolding("persist", tmp.content)
    /\ UNCHANGED <<files, in_place, fs, meta, before, fidx, failed, stdout,
                   rvars, uvars, svars>>

\* new_outfile.set_permissions(infile_meta.permissions()); Ok(())
InplaceSetPermissions ==
    /\ dpc = "ip_setperm"
    /\ fs' = [fs EXCEPT ![Path].mode = meta]
    /\ fidx' = fidx + 1
    /\ dpc' = "inplace_loop"
    /\ spc' = "idle"
    /\ UNCHANGED <<files, in_place, tmp, meta, before, failed, stdout, stderr,
                   exit, replacer, input, rdpos, sbuf, output, rvars, uvars>>

InplaceSetPermissionsFail ==
    /\ dpc = "ip_setperm"
    /\ InplaceFail("setperm")
    /\ UNCHANGED <<files, in_place, fs, meta, before, fidx, failed, stdout,
                   rvars, uvars, svars>>

\* do_replace_inplace: the loop is over, Ok(())
InplaceFinish ==
    /\ dpc = "inplace_loop" /\ fidx > Len(files)
    /\ exit' = "ok"
    /\ dpc' = "done"
    /\ UNCHANGED <<files, in_place, fs, tmp, meta, before, fidx, failed, stdout,
                   stderr, rvars, uvars, svars>>

Next ==
    \/ RunStart
    \/ StdoutStdin \/ StdoutOpen \/ StdoutOpenFail
    \/ StdoutStreamOk \/ StdoutStreamErr \/ StdoutFinish
    \/ InplaceOpen \/ InplaceOpenFail
    \/ InplaceMetadata \/ InplaceMetadataFail
    \/ InplaceTempfile \/ InplaceTempfileFail
    \/ InplaceStreamOk \/ InplaceStreamErr
    \/ InplaceFlush \/ InplaceFlushFail
    \/ InplacePersist \/ InplacePersistFail
    \/ InplaceSetPermissions \/ InplaceSetPermissionsFail
    \/ InplaceFinish
    \/ StreamRead \/ StreamEnd \/ StreamReadFail
    \/ StreamWrite \/ StreamSkip \/ StreamWriteFail

Spec == InitRun /\ [][Next]_vars

\* ----------------------------------------------------------- claims C6, C7
\* the in-place edit of the current target failed and ended the run
LastError == stderr[Len(stderr)]
InplaceFailed ==
    /\ in_place /\ dpc = "done" /\ exit = "fail"
    /\ LastError.kind # "config"

SameContent(a, b) == a.exists = b.exists /\ a.content = b.content

\* C6 as stated: whichever step of an in-place edit fails, permission
\* propagation included, the target path then holds the original content.
C6_OriginalIntact ==
    InplaceFailed => SameContent(fs[Path], before[Path])

\* C6 amended: when a step up to and including the rename fails, the target
\* path holds the original content; when permission propagation fails, the
\* rename has happened and the target path holds the replaced content.
C6_IntactBeforeRename ==
    InplaceFailed =>
        IF LastError.kind = "setperm"
        THEN /\ fs[Path].exists
             /\ fs[Path].content =
                    Emitted(replacer, LineUnits(before[Path].content))
        ELSE SameContent(fs[Path], before[Path])

C6_Witness ==
    /\ InplaceFailed
    /\ LastError.kind = "persist"
    /\ output # input
    /\ fs[Path].content = input

\* the kinds of error that are failures of one target
TargetErrors ==
    {"open", "read_err", "write_err", "metadata", "tempfile", "flush",
     "persist", "setperm"}

\* C7: when a target fails with a per-target I/O error, every remaining
\* target is still attempted, in order, and the run ends with a failure exit
\* status, in stdout mode and in in-place mode.
C7_RemainingAttempted ==
    (dpc = "done" /\ \E i \in 1..Len(stderr) : stderr[i].kind \in TargetErrors) =>
        /\ exit = "fail"
        /\ fidx >= Len(files)

\* ---------------------------------------------------------------- claim C11
\* the failures between the creation of the temporary file and a successful
\* rename
AfterTempfileErrors == {"read_err", "write_err", "flush", "persist"}

\* C11: on every failure path of an in-place edit after the temporary file
\* is created and before a successful rename (stream read or write error,
\* flush error, rename error), the temporary file is gone from the directory
\* by the time the process exits.
C11_TempfileRemoved ==
    (InplaceFailed /\ LastError.kind \in AfterTempfileErrors) => ~tmp.exists

\* ---------------------------------------------------------------- claim C12
\* what each one-byte escape stands for
EscapeTable ==
    (BS :> BS) @@ (Zero :> 0) @@ (LowerN :> 10) @@ (LowerR :> 13) @@ (LowerT :> 9)

\* the index of the first closing brace at or after index i
ClosingBrace(bytes, i) ==
    CHOOSE j \in i..Len(bytes) :
        bytes[j] = RBrace /\ \A k \in i..(j - 1) : bytes[k] # RBrace

\* the template from index i on, each byte outside an escape sequence kept
\* and each escape sequence replaced by what it denotes: the table entry,
\* the byte of the two hex digits, the UTF-8 encoding of the braced digits
RECURSIVE Decoded(_, _)
Decoded(bytes, i) ==
    IF i > Len(bytes) THEN <<>>
    ELSE IF bytes[i] # BS THEN <<bytes[i]>> \o Decoded(bytes, i + 1)
    ELSE IF bytes[i + 1] \in DOMAIN EscapeTable
         THEN <<EscapeTable[bytes[i + 1]]>> \o Decoded(bytes, i + 2)
    ELSE IF bytes[i + 1] = LowerX
         THEN <<HexValue(SubSeq(bytes, i + 2, i + 3))>> \o Decoded(bytes, i + 4)
    ELSE LET j == ClosingBrace(bytes, i + 3)
         IN EncodeUtf8(HexValue(SubSeq(bytes, i + 3, j - 1)))
                \o Decoded(bytes, j + 1)

\* the cursor and the slice starts stay inside the input, and a successful
\* scan returns the decoded template
ScanInBounds ==
    /\ ulast >= 0 /\ ulast <= Len(ubytes)
    /\ (upc = "scan" /\ UPos # -1 /\ UHasEsc /\ UEsc \in {LowerX, LowerU}) =>
            UPos + 2 <= Len(ubytes)
    /\ upc = "ok" =>
            /\ uout = Decoded(ubytes, 1)
            /\ (\A k \in 1..Len(ubytes) : ubytes[k] # BS) => uout = ubytes

\* a step of the scan either returns or decodes an escape, which moves the
\* cursor forward, within the input; nothing follows the return
CursorAdvances ==
    /\ (upc = "scan" /\ upc' = "scan") => (ulast' > ulast /\ ulast' <= Len(ubytes))
    /\ upc \in {"ok", "err"} => UNCHANGED <<upc, ulast, uout>>

\* C12: the scan of unescape_bytes_ terminates and never reads outside the
\* input: each decoded escape moves `last` strictly forward and at most to
\* the input length, every slice start pos + 2 is at most the input length,
\* and on success the output is the bytes outside escape sequences, unchanged
\* and in order, interleaved with the decoded escapes.  Termination is the
\* strictly increasing cursor bounded by the input length: the loop cannot
\* go round more often than the input has bytes.
C12_ScanTerminatesInBounds ==
    /\ []ScanInBounds
    /\ [][CursorAdvances]_vars

C12_Witness ==
    /\ upc = "ok"
    /\ ulast = Len(ubytes)
    /\ \E k \in 1..Len(ubytes) : ubytes[k] = LowerX
    /\ Len(uout) = 2
    /\ ubytes[1] # BS

====
